---- MODULE Spec2Model ----
(***************************************************************************)
(* Model of autogluon/utils/tabular/ml/augmentation/distill_utils.py:      *)
(* the label transformer, the two synthetic-row samplers (SPUNGE, MUNGE),  *)
(* the post-processor and the augmentation dispatcher.                     *)
(*                                                                         *)
(* A DataFrame is a record [columns, index, rows]: rows is the sequence of *)
(* rows in positional (iloc) order, index the row labels.  Python          *)
(* positions are 0-based, TLA+ sequences 1-based: X.iloc[p] is             *)
(* X.rows[p + 1].  A fraction (frac_perturb, perturb_prob) is a pair       *)
(* <<numerator, denominator>>.  Cell values are numbers; the int -> float  *)
(* casts of munge_augment keep the numeric value of a cell.                *)
(***************************************************************************)
EXTENDS Integers, Sequences, FiniteSets, TLC

VARIABLES pc, op, X, X_in, feature_types_metadata, augment_method,
          augmentation_data, augment_args, args_built, kwargs,
          num_feature_perturb, X_aug, i, feature, cols_toperturb, neigh_ind,
          nn_attempted, ret, err, y_in, y_ret

vars == <<pc, op, X, X_in, feature_types_metadata, augment_method,
          augmentation_data, augment_args, args_built, kwargs,
          num_feature_perturb, X_aug, i, feature, cols_toperturb, neigh_ind,
          nn_attempted, ret, err, y_in, y_ret>>

(* ---------------------------- bounds ----------------------------------- *)
MaxRows == 2          \* rows of a dataset X
MaxSamples == 2       \* num_augmented_samples of a direct sampler call
MaxLabels == 2        \* length of y_train / y_test
MaxClasses == 3       \* num_classes

(* ---------------------------- values ----------------------------------- *)
None == [none |-> TRUE]
NoError == [type |-> "none", raised_by |-> "none"]
Vals == {0, 1}
Noise == {-1, 0, 1}   \* outcomes of a Gaussian draw with positive scale
FracPerturbs == {<<0, 1>>, <<1, 10>>, <<1, 2>>, <<3, 4>>, <<1, 1>>, <<3, 2>>}

Min(a, b) == IF a <= b THEN a ELSE b
Max(a, b) == IF a >= b THEN a ELSE b
Range(s) == {s[n] : n \in DOMAIN s}
InSeq(e, s) == \E n \in DOMAIN s : s[n] = e

(* pandas RangeIndex(start, start + n) *)
RangeIndex(start, n) == [p \in 1..n |-> start + p - 1]

Rows(columns) == [Range(columns) -> Vals]

DataFrames(columns, lo, hi) ==
    UNION {{[columns |-> columns, index |-> RangeIndex(0, n), rows |-> r] :
            r \in [1..n -> Rows(columns)]} : n \in lo..hi}

(* the schemas of the datasets: the columns and the feature type map the   *)
(* feature classifier supplies for them                                    *)
Schemas ==
    {[columns |-> <<"x">>, ftm |-> ("int" :> <<"x">>)],
     [columns |-> <<"x", "c">>, ftm |-> ("float" :> <<"x">>)],
     [columns |-> <<"x", "c">>, ftm |-> ("object" :> <<"x", "c">>)],
     [columns |-> <<"x", "c">>,
      ftm |-> ("datetime" :> <<"c">>) @@ ("float" :> <<"x">>)]}

AugmentSchemas ==
    {[columns |-> <<"c">>, ftm |-> ("object" :> <<"c">>)]}

len(df) == Len(df.rows)

(* ------------------- pandas operations used by the code ---------------- *)
(* pd.concat(objs): raises ValueError on an empty list of frames *)
concat(a, b) ==
    [columns |-> a.columns, index |-> a.index \o b.index,
     rows |-> a.rows \o b.rows]

(* tail as the bare slice iloc[-n:], which for n = 0 is the whole frame *)
TailSlice(df, n) ==
    LET from == IF n = 0 THEN 1 ELSE Max(1, len(df) - n + 1)
    IN [columns |-> df.columns,
        index |-> SubSeq(df.index, from, len(df)),
        rows |-> SubSeq(df.rows, from, len(df))]

(* DataFrame.tail(n): n = 0 gives the empty frame, else iloc[-n:] *)
tail(df, n) ==
    IF n = 0
    THEN [columns |-> df.columns, index |-> <<>>, rows |-> <<>>]
    ELSE LET from == Max(1, len(df) - n + 1)
         IN [columns |-> df.columns,
             index |-> SubSeq(df.index, from, len(df)),
             rows |-> SubSeq(df.rows, from, len(df))]

(* DataFrame.reset_index(drop=True) *)
reset_index(df) ==
    [columns |-> df.columns, index |-> RangeIndex(0, len(df)),
     rows |-> df.rows]

(* pd.concat([X.iloc[[0]].copy()] * n) followed by reset_index, n >= 1 *)
Replicate(df, n) ==
    reset_index([columns |-> df.columns,
                 index |-> [p \in 1..n |-> df.index[1]],
                 rows |-> [p \in 1..n |-> df.rows[1]]])

(* np.random.choice(a, size, replace=False): arrays of distinct elements *)
choice(a, size) ==
    {s \in [1..size -> Range(a)] :
        \A m, n \in 1..size : m # n => s[m] # s[n]}

(* the values of column feature in X *)
Column(df, f) == {df.rows[p][f] : p \in 1..len(df)}

(* ------------------------- shared sampler parts ------------------------ *)
TypeList(ftm, contype) == IF contype \in DOMAIN ftm THEN ftm[contype] ELSE <<>>

(* the names listed under 'float', 'int', 'datetime', in that order *)
continuous_featnames(ftm) ==
    TypeList(ftm, "float") \o TypeList(ftm, "int") \o TypeList(ftm, "datetime")

(* the comparison made on int(frac): 1.5 passes *)
ExceedsOneTruncated(frac) == frac[1] \div frac[2] > 1

(* frac > 1.0 *)
ExceedsOne(frac) == frac[1] > frac[2]

(* np.random.binomial(n=1, p): the outcomes of one Bernoulli draw *)
Bernoulli(p) ==
    IF p[1] = 0 THEN {0} ELSE IF p[1] = p[2] THEN {1} ELSE {0, 1}

(* np.random.normal(scale): 0 when the scale is 0 *)
Normal(scaleIsZero) == IF scaleIsZero THEN {0} ELSE Noise

(* np.nanstd(X[feature]) = 0: the column is constant *)
StdIsZero(df, f) == Cardinality(Column(df, f)) = 1

(* the row appended to the buffer instead of written at its position *)
AppendRow(df, pos, row) ==
    [df EXCEPT !.rows = Append(@, row), !.index = Append(@, pos)]

SetRow(df, pos, row) == [df EXCEPT !.rows[pos + 1] = row]

ValueError(who) == [type |-> "ValueError", raised_by |-> who]
KeyError(who) == [type |-> "KeyError", raised_by |-> who]

(* an exception leaves the running call: nothing is returned *)
Raise(e) ==
    /\ pc' = "done"
    /\ err' = e
    /\ ret' = None

(* a sampler returns its batch: to the caller of a direct call, or to      *)
(* augment_data, which goes on to postprocess_augmented (line 51)          *)
SamplerReturn ==
    /\ err' = err
    /\ IF op = "augment_data"
       THEN pc' = "postprocess" /\ ret' = ret
       ELSE pc' = "done" /\ ret' = X_aug

(* ----------------------------- spunge_augment -------------------------- *)
(* the product rounded to nearest instead of truncated *)
NumFeaturePerturbRounded(frac_perturb, ncols) ==
    LET num == frac_perturb[1] * ncols
        den == frac_perturb[2]
    IN Max(1, (2 * num + den) \div (2 * den))

(* line 75: int() truncates the product *)
NumFeaturePerturb(frac_perturb, ncols) ==
    Max(1, (frac_perturb[1] * ncols) \div frac_perturb[2])

(* the resampled value read from the first column instead of the drawn one *)
SpungeRowValueFirstColumn(df, og_ind, cols, sampled) ==
    [c \in Range(df.columns) |->
        IF \E m \in DOMAIN cols : cols[m] = c
        THEN LET m == CHOOSE m \in DOMAIN cols : cols[m] = c
             IN df.rows[sampled[m]][df.columns[1]]
        ELSE df.rows[og_ind + 1][c]]

(* the row built by one iteration of the hot-deck loop, lines 85-91 *)
SpungeRowValue(df, og_ind, cols, sampled) ==
    [c \in Range(df.columns) |->
        IF \E m \in DOMAIN cols : cols[m] = c
        THEN LET m == CHOOSE m \in DOMAIN cols : cols[m] = c
             IN df.rows[sampled[m]][c]
        ELSE df.rows[og_ind + 1][c]]

(* lines 72-83 *)
SpungeBegin ==
    /\ pc = "spunge_augment"
    /\ IF ExceedsOne(kwargs.frac_perturb)
       THEN /\ Raise(ValueError("spunge_augment"))
            /\ UNCHANGED <<num_feature_perturb, X_aug, i>>
       ELSE /\ num_feature_perturb' =
                 NumFeaturePerturb(kwargs.frac_perturb, Len(X.columns))
            /\ IF kwargs.num_augmented_samples = 0
               THEN /\ Raise(ValueError("pandas.concat"))
                    /\ UNCHANGED <<X_aug, i>>
               ELSE /\ X_aug' = Replicate(X, kwargs.num_augmented_samples)
                    /\ i' = 0
                    /\ pc' = "spunge_loop"
                    /\ UNCHANGED <<ret, err>>
    /\ UNCHANGED <<op, X, X_in, feature_types_metadata, augment_method,
                   augmentation_data, augment_args, args_built, kwargs,
                   feature, cols_toperturb, neigh_ind, nn_attempted,
                   y_in, y_ret>>

(* lines 84-92: one iteration of the loop over the synthetic rows *)
SpungeRow ==
    /\ pc = "spunge_loop"
    /\ i < kwargs.num_augmented_samples
    /\ LET og_ind == i % len(X)
       IN \E num_feature_perturb_i \in 1..num_feature_perturb :
          \E cols \in choice(X.columns, num_feature_perturb_i) :
          \E sampled \in [1..num_feature_perturb_i -> 1..len(X)] :
             /\ X_aug' = SetRow(X_aug, i, SpungeRowValue(X, og_ind, cols, sampled))
             /\ cols_toperturb' = cols
    /\ i' = i + 1
    /\ UNCHANGED <<pc, op, X, X_in, feature_types_metadata, augment_method,
                   augmentation_data, augment_args, args_built, kwargs,
                   num_feature_perturb, feature, neigh_ind, nn_attempted,
                   ret, err, y_in, y_ret>>

(* line 84 -> 94: the row loop is over, the loop over the columns starts *)
SpungeRowsDone ==
    /\ pc = "spunge_loop"
    /\ i = kwargs.num_augmented_samples
    /\ pc' = "spunge_noise"
    /\ feature' = 0
    /\ UNCHANGED <<op, X, X_in, feature_types_metadata, augment_method,
                   augmentation_data, augment_args, args_built, kwargs,
                   num_feature_perturb, X_aug, i, cols_toperturb, neigh_ind,
                   nn_attempted, ret, err, y_in, y_ret>>

(* lines 94-101: one iteration of the loop over X.columns *)
SpungeNoise ==
    /\ pc = "spunge_noise"
    /\ feature < Len(X.columns)
    /\ LET f == X.columns[feature + 1]
           n == kwargs.num_augmented_samples
           deltas == {a * b : a \in Normal(StdIsZero(X, f)),
                              b \in Bernoulli(kwargs.frac_perturb)}
       IN IF InSeq(f, continuous_featnames(feature_types_metadata))
          THEN \E d \in [1..n -> deltas] :
                 X_aug' = [X_aug EXCEPT !.rows =
                    [p \in 1..n |-> [X_aug.rows[p] EXCEPT ![f] = @ + d[p]]]]
          ELSE X_aug' = X_aug
    /\ feature' = feature + 1
    /\ UNCHANGED <<pc, op, X, X_in, feature_types_metadata, augment_method,
                   augmentation_data, augment_args, args_built, kwargs,
                   num_feature_perturb, i, cols_toperturb, neigh_ind,
                   nn_attempted, ret, err, y_in, y_ret>>

(* line 103 *)
SpungeReturn ==
    /\ pc = "spunge_noise"
    /\ feature = Len(X.columns)
    /\ SamplerReturn
    /\ UNCHANGED <<op, X, X_in, feature_types_metadata, augment_method,
                   augmentation_data, augment_args, args_built, kwargs,
                   num_feature_perturb, X_aug, i, feature, cols_toperturb,
                   neigh_ind, nn_attempted, y_in, y_ret>>

(* ------------------------------ munge_augment -------------------------- *)
(* lines 115-122, the vectorization of the rows by the throwaway network:  *)
(* squared Euclidean distance of two encoded rows, a continuous column     *)
(* encoded by its value and any other column one-hot                       *)
Dist2(df, ftm, p, q) ==
    LET cont == continuous_featnames(ftm)
        d(c) == IF InSeq(c, cont)
                THEN (df.rows[p][c] - df.rows[q][c]) * (df.rows[p][c] - df.rows[q][c])
                ELSE IF df.rows[p][c] = df.rows[q][c] THEN 0 ELSE 2
        RECURSIVE Sum(_)
        Sum(n) == IF n = 0 THEN 0 ELSE d(df.columns[n]) + Sum(n - 1)
    IN Sum(Len(df.columns))

(* lines 127-130: kneighbors(X_vector) with n_neighbors=2 lists, for the   *)
(* query row q, the two nearest rows of the fitted data (q is one of them) *)
(* by increasing distance, equidistant rows in an order of its choosing;   *)
(* neigh_ind[:,1] is the second of the two.  Positions are 0-based.        *)
SecondNearest(df, ftm, q) ==
    {j - 1 : j \in {j \in 1..len(df) :
        \E a \in 1..len(df) \ {j} :
            /\ Dist2(df, ftm, q, a) <= Dist2(df, ftm, q, j)
            /\ \A k \in 1..len(df) \ {a, j} :
                  Dist2(df, ftm, q, j) <= Dist2(df, ftm, q, k)}}

(* np.random.binomial(n, p): the possible numbers of successes *)
Binomial(n, p) ==
    IF p[1] = 0 THEN {0} ELSE IF p[1] = p[2] THEN {n} ELSE 0..n

(* the row built by one iteration of the loop, lines 157-166 *)
MungeRowValue(df, ftm, og_ind, nb, cols, noise) ==
    [c \in Range(df.columns) |->
        IF InSeq(c, cols)
        THEN IF InSeq(c, continuous_featnames(ftm))
             THEN df.rows[nb + 1][c] + noise[c]
             ELSE df.rows[nb + 1][c]
        ELSE df.rows[og_ind + 1][c]]

(* the draws of np.random.normal(scale=|base - neighbor| / s), per column *)
MungeNoise(df, og_ind, nb) ==
    [c \in Range(df.columns) |->
        Normal(df.rows[og_ind + 1][c] = df.rows[nb + 1][c])]

(* the functions that pick one element of S[c] for every c *)
Pick(S) == {f \in [DOMAIN S -> UNION {S[c] : c \in DOMAIN S}] :
               \A c \in DOMAIN S : f[c] \in S[c]}

(* lines 115-155 *)
MungeBegin ==
    /\ pc = "munge_augment"
    /\ nn_attempted' = TRUE
    /\ IF len(X) < 2
       THEN /\ Raise(ValueError("sklearn.kneighbors"))
            /\ UNCHANGED <<neigh_ind, X_aug, i>>
       ELSE /\ neigh_ind' \in
                 Pick([q \in 1..len(X) |->
                          SecondNearest(X, feature_types_metadata, q)])
            /\ IF ExceedsOne(kwargs.perturb_prob)
               THEN /\ Raise(ValueError("munge_augment"))
                    /\ UNCHANGED <<X_aug, i>>
               ELSE IF kwargs.num_augmented_samples = 0
               THEN /\ Raise(ValueError("pandas.concat"))
                    /\ UNCHANGED <<X_aug, i>>
               ELSE /\ X_aug' = Replicate(X, kwargs.num_augmented_samples)
                    /\ i' = 0
                    /\ pc' = "munge_loop"
                    /\ UNCHANGED <<ret, err>>
    /\ UNCHANGED <<op, X, X_in, feature_types_metadata, augment_method,
                   augmentation_data, augment_args, args_built, kwargs,
                   num_feature_perturb, feature, cols_toperturb, y_in, y_ret>>

(* lines 156-167: one iteration of the loop over the synthetic rows *)
MungeRow ==
    /\ pc = "munge_loop"
    /\ i < kwargs.num_augmented_samples
    /\ LET og_ind == i % len(X)
           nb == neigh_ind[og_ind + 1]
       IN \E size \in Binomial(Len(X.columns), kwargs.perturb_prob) :
          \E cols \in choice(X.columns, size) :
          \E noise \in Pick(MungeNoise(X, og_ind, nb)) :
             /\ X_aug' = SetRow(X_aug, i,
                   MungeRowValue(X, feature_types_metadata, og_ind, nb,
                                 cols, noise))
             /\ cols_toperturb' = cols
    /\ i' = i + 1
    /\ UNCHANGED <<pc, op, X, X_in, feature_types_metadata, augment_method,
                   augmentation_data, augment_args, args_built, kwargs,
                   num_feature_perturb, feature, neigh_ind, nn_attempted,
                   ret, err, y_in, y_ret>>

(* line 169 *)
MungeReturn ==
    /\ pc = "munge_loop"
    /\ i = kwargs.num_augmented_samples
    /\ SamplerReturn
    /\ UNCHANGED <<op, X, X_in, feature_types_metadata, augment_method,
                   augmentation_data, augment_args, args_built, kwargs,
                   num_feature_perturb, X_aug, i, feature, cols_toperturb,
                   neigh_ind, nn_attempted, y_in, y_ret>>

(* --------------------------- postprocess_augmented --------------------- *)
(* lines 54-59 *)
postprocess_augmented(aug, df) ==
    LET all == concat(df, aug)
    IN reset_index(tail(all, len(all) - len(df)))

Postprocess ==
    /\ pc = "postprocess"
    /\ ret' = postprocess_augmented(X_aug, X)
    /\ pc' = "done"
    /\ UNCHANGED <<op, X, X_in, feature_types_metadata, augment_method,
                   augmentation_data, augment_args, args_built, kwargs,
                   num_feature_perturb, X_aug, i, feature, cols_toperturb,
                   neigh_ind, nn_attempted, err, y_in, y_ret>>

(* ------------------------------- callers ------------------------------- *)
EmptyFrame == [columns |-> <<>>, index |-> <<>>, rows |-> <<>>]
NoKwargs == [num_augmented_samples |-> 0, frac_perturb |-> <<0, 1>>,
             perturb_prob |-> <<0, 1>>]
NoLabels == [y_train |-> <<>>, y_test |-> <<>>, problem_type |-> "none",
             num_classes |-> 0]

(* a caller invokes spunge_augment(X, feature_types_metadata, N, frac) *)
CallSpunge ==
    /\ pc = "idle"
    /\ \E schema \in Schemas :
       \E df \in DataFrames(schema.columns, 1, MaxRows) :
       \E n \in 0..MaxSamples :
       \E frac \in FracPerturbs :
          /\ X' = df /\ X_in' = df
          /\ feature_types_metadata' = schema.ftm
          /\ kwargs' = [NoKwargs EXCEPT !.num_augmented_samples = n,
                                        !.frac_perturb = frac]
    /\ op' = "spunge_augment"
    /\ pc' = "spunge_augment"
    /\ UNCHANGED <<augment_method, augmentation_data, augment_args,
                   args_built, num_feature_perturb, X_aug, i, feature,
                   cols_toperturb, neigh_ind, nn_attempted, ret, err,
                   y_in, y_ret>>

(* a caller invokes munge_augment(X, feature_types_metadata, N, prob) *)
CallMunge ==
    /\ pc = "idle"
    /\ \E schema \in Schemas :
       \E df \in DataFrames(schema.columns, 1, MaxRows) :
       \E n \in 0..MaxSamples :
       \E prob \in FracPerturbs :
          /\ X' = df /\ X_in' = df
          /\ feature_types_metadata' = schema.ftm
          /\ kwargs' = [NoKwargs EXCEPT !.num_augmented_samples = n,
                                        !.perturb_prob = prob]
    /\ op' = "munge_augment"
    /\ pc' = "munge_augment"
    /\ UNCHANGED <<augment_method, augmentation_data, augment_args,
                   args_built, num_feature_perturb, X_aug, i, feature,
                   cols_toperturb, neigh_ind, nn_attempted, ret, err,
                   y_in, y_ret>>

(* the synthetic batches a caller may hold: any rows, under a range index  *)
(* that starts at 0 or further on (a slice of a longer frame)              *)
IndexStarts == {0, 1}
Batches(columns, hi) ==
    {[df EXCEPT !.index = RangeIndex(start, len(df))] :
        df \in DataFrames(columns, 0, hi), start \in IndexStarts}

(* a caller invokes postprocess_augmented(X_aug, X) *)
CallPostprocess ==
    /\ pc = "idle"
    /\ \E schema \in Schemas :
       \E df \in DataFrames(schema.columns, 1, MaxRows) :
       \E aug \in Batches(schema.columns, MaxSamples) :
          /\ X' = df /\ X_in' = df
          /\ X_aug' = aug
          /\ feature_types_metadata' = schema.ftm
    /\ op' = "postprocess_augmented"
    /\ pc' = "postprocess"
    /\ UNCHANGED <<augment_method, augmentation_data, augment_args,
                   args_built, kwargs, num_feature_perturb, i, feature,
                   cols_toperturb, neigh_ind, nn_attempted, ret, err,
                   y_in, y_ret>>

(* ------------------------------ augment_data --------------------------- *)
NpInf == [inf |-> TRUE, val |-> 0]
Finite(v) == [inf |-> FALSE, val |-> v]
AugmentMethods == {"spunge", "munge", "gan"}
SizeFactors == {<<1, 1>>, <<2, 1>>, <<3, 2>>}

(* the mappings a caller builds, none with num_augmented_samples; the      *)
(* empty one is also the default value of the parameter                    *)
ArgsBuilt ==
    {<<>>}
    \cup {("size_factor" :> sf) : sf \in SizeFactors}
    \cup {("size_factor" :> sf) @@ ("max_size" :> Finite(MaxRows + 1)) :
            sf \in SizeFactors}

Has(args, key) == key \in DOMAIN args
Put(args, key, v) == (key :> v) @@ args

(* line 42: int(min(max_size, size_factor * len(X_train))) *)
DerivedSamples(max_size, size_factor, n) ==
    LET scaled == (size_factor[1] * n) \div size_factor[2]
    IN IF max_size.inf THEN scaled ELSE Min(max_size.val, scaled)

(* lines 40-41 *)
WithMaxSize(args) ==
    IF Has(args, "max_size") THEN args ELSE Put(args, "max_size", NpInf)

(* the keyword arguments **augment_args binds in a sampler *)
Kwargs(args) ==
    [num_augmented_samples |-> args["num_augmented_samples"],
     frac_perturb |-> IF Has(args, "frac_perturb")
                      THEN args["frac_perturb"] ELSE <<1, 10>>,
     perturb_prob |-> IF Has(args, "perturb_prob")
                      THEN args["perturb_prob"] ELSE <<1, 2>>]

(* lines 44-49: the sampler is entered, or the method is unknown *)
Dispatch(method, args) ==
    IF method = "spunge"
    THEN pc' = "spunge_augment" /\ kwargs' = Kwargs(args)
                                /\ UNCHANGED <<ret, err>>
    ELSE IF method = "munge"
    THEN pc' = "munge_augment" /\ kwargs' = Kwargs(args)
                               /\ UNCHANGED <<ret, err>>
    ELSE Raise(ValueError("augment_data")) /\ UNCHANGED kwargs

(* a caller invokes augment_data(X_train, feature_types_metadata,          *)
(* augmentation_data, augment_method, augment_args) with its mapping:      *)
(* lines 36-49; the sampler and line 51 follow                             *)
AugmentData ==
    /\ pc = "idle"
    /\ op' = "augment_data"
    /\ \E schema \in AugmentSchemas :
       \E df \in DataFrames(schema.columns, 1, MaxRows) :
       \E data \in {None} \cup Batches(schema.columns, 1) :
       \E method \in AugmentMethods :
          /\ X' = df /\ X_in' = df
          /\ feature_types_metadata' = schema.ftm
          /\ augmentation_data' = data
          /\ augment_method' = method
          /\ IF data # None
             THEN /\ X_aug' = data
                  /\ pc' = "postprocess"
                  /\ UNCHANGED <<augment_args, kwargs, ret, err>>
             ELSE /\ UNCHANGED X_aug
                  /\ IF Has(augment_args, "num_augmented_samples")
                     THEN /\ UNCHANGED augment_args
                          /\ Dispatch(method, augment_args)
                     ELSE IF ~Has(augment_args, "size_factor")
                     THEN /\ augment_args' = WithMaxSize(augment_args)
                          /\ Raise(KeyError("augment_data"))
                          /\ UNCHANGED kwargs
                     ELSE LET args == WithMaxSize(augment_args)
                              derived == Put(args, "num_augmented_samples",
                                  DerivedSamples(args["max_size"],
                                      args["size_factor"], len(df)))
                          IN /\ augment_args' = derived
                             /\ Dispatch(method, derived)
    /\ UNCHANGED <<args_built, num_feature_perturb, i, feature,
                   cols_toperturb, neigh_ind, nn_attempted, y_in, y_ret>>

(* ----------------------- format_distillation_labels -------------------- *)
ProblemTypes == {"multiclass", "binary", "regression", "softclass"}
eps_labelsmooth == <<1, 100>>

(* the 1 written one column to the right of the label *)
OneHotShifted(y, num_classes) ==
    [r \in 1..Len(y) |->
        [c \in 0..(num_classes - 1) |-> IF c = y[r] + 1 THEN 1 ELSE 0]]

(* lines 17-20: np.zeros((size, num_classes)) with a 1 at [r, y[r]];       *)
(* the columns of the frame are 0 .. num_classes - 1                       *)
OneHot(y, num_classes) ==
    [r \in 1..Len(y) |->
        [c \in 0..(num_classes - 1) |-> IF c = y[r] THEN 1 ELSE 0]]

(* lines 26-28: eps + ((1 - 2 eps) / (1.0 - 0.0)) * (y - 0.0), a fraction *)
Smooth(y, eps) ==
    [r \in 1..Len(y) |-> <<eps[1] + (eps[2] - 2 * eps[1]) * y[r], eps[2]>>]

(* the index y[r] is out of bounds for axis 1 of the zeros array *)
OutOfBounds(y, num_classes) ==
    \E r \in 1..Len(y) : y[r] >= num_classes

format_distillation_labels(y_train, y_test, problem_type, num_classes) ==
    IF problem_type = "multiclass"
    THEN <<OneHot(y_train, num_classes), OneHot(y_test, num_classes)>>
    ELSE IF problem_type = "binary"
    THEN <<Smooth(y_train, eps_labelsmooth), Smooth(y_test, eps_labelsmooth)>>
    ELSE <<y_train, y_test>>

LabelSeqs(hi) == UNION {[1..n -> 0..hi] : n \in 0..MaxLabels}

(* a caller invokes format_distillation_labels *)
FormatLabels ==
    /\ pc = "idle"
    /\ op' = "format_distillation_labels"
    /\ \E problem_type \in ProblemTypes :
       \E num_classes \in 1..MaxClasses :
       \E y_train \in LabelSeqs(IF problem_type = "binary"
                                THEN 1 ELSE MaxClasses - 1) :
       \E y_test \in LabelSeqs(IF problem_type = "binary"
                               THEN 1 ELSE MaxClasses - 1) :
          /\ y_in' = [y_train |-> y_train, y_test |-> y_test,
                      problem_type |-> problem_type,
                      num_classes |-> num_classes]
          /\ IF /\ problem_type = "multiclass"
                /\ \/ OutOfBounds(y_train, num_classes)
                   \/ OutOfBounds(y_test, num_classes)
             THEN /\ err' = [type |-> "IndexError", raised_by |-> "numpy"]
                  /\ y_ret' = None
             ELSE /\ err' = err
                  /\ y_ret' = format_distillation_labels(y_train, y_test,
                                  problem_type, num_classes)
    /\ pc' = "done"
    /\ UNCHANGED <<X, X_in, feature_types_metadata, augment_method,
                   augmentation_data, augment_args, args_built, kwargs,
                   num_feature_perturb, X_aug, i, feature, cols_toperturb,
                   neigh_ind, nn_attempted, ret>>

(* the caller takes the result (or the exception) of the finished call *)
Finish ==
    /\ pc = "done"
    /\ pc' = "idle"
    /\ op' = "none"
    /\ X' = EmptyFrame
    /\ X_in' = EmptyFrame
    /\ feature_types_metadata' = <<>>
    /\ augment_method' = "none"
    /\ augmentation_data' = None
    /\ kwargs' = NoKwargs
    /\ num_feature_perturb' = 0
    /\ X_aug' = EmptyFrame
    /\ i' = 0
    /\ feature' = 0
    /\ cols_toperturb' = <<>>
    /\ neigh_ind' = <<>>
    /\ nn_attempted' = FALSE
    /\ ret' = None
    /\ err' = NoError
    /\ y_in' = NoLabels
    /\ y_ret' = None
    /\ UNCHANGED <<augment_args, args_built>>

Init ==
    /\ pc = "idle"
    /\ op = "none"
    /\ X = EmptyFrame
    /\ X_in = EmptyFrame
    /\ feature_types_metadata = <<>>
    /\ augment_method = "none"
    /\ augmentation_data = None
    /\ kwargs = NoKwargs
    /\ num_feature_perturb = 0
    /\ X_aug = EmptyFrame
    /\ i = 0
    /\ feature = 0
    /\ cols_toperturb = <<>>
    /\ neigh_ind = <<>>
    /\ nn_attempted = FALSE
    /\ ret = None
    /\ err = NoError
    /\ y_in = NoLabels
    /\ y_ret = None
    /\ augment_args = <<>>
    /\ args_built = <<>>

(* the steps of a running call *)
Step ==
    \/ SpungeBegin
    \/ SpungeRow
    \/ SpungeRowsDone
    \/ SpungeNoise
    \/ SpungeReturn
    \/ MungeBegin
    \/ MungeRow
    \/ MungeReturn
    \/ Postprocess
    \/ Finish

(* direct calls of the samplers and of the post-processor *)
Next ==
    \/ CallSpunge
    \/ CallMunge
    \/ CallPostprocess
    \/ Step

Spec == Init /\ [][Next]_vars

(* sequences of augment_data calls that share the caller's mapping *)
InitAugment ==
    /\ args_built \in ArgsBuilt
    /\ augment_args = args_built
    /\ pc = "idle"
    /\ op = "none"
    /\ X = EmptyFrame
    /\ X_in = EmptyFrame
    /\ feature_types_metadata = <<>>
    /\ augment_method = "none"
    /\ augmentation_data = None
    /\ kwargs = NoKwargs
    /\ num_feature_perturb = 0
    /\ X_aug = EmptyFrame
    /\ i = 0
    /\ feature = 0
    /\ cols_toperturb = <<>>
    /\ neigh_ind = <<>>
    /\ nn_attempted = FALSE
    /\ ret = None
    /\ err = NoError
    /\ y_in = NoLabels
    /\ y_ret = None

NextAugment ==
    \/ AugmentData
    \/ Step

SpecAugment == InitAugment /\ [][NextAugment]_vars

(* calls of the label transformer *)
InitLabels == Init

NextLabels ==
    \/ FormatLabels
    \/ Finish

SpecLabels == InitLabels /\ [][NextLabels]_vars

(* ======================= properties of the samplers ==================== *)
IsFrame(r) == "rows" \in DOMAIN r
Samplers == {"spunge_augment", "munge_augment"}

(* the perturbation setting the running sampler reads *)
Perturbation ==
    IF op = "spunge_augment" THEN kwargs.frac_perturb ELSE kwargs.perturb_prob

(* listed under one of the continuous types of the feature type map *)
ListedContinuous(ftm, c) ==
    \E t \in {"float", "int", "datetime"} \cap DOMAIN ftm : InSeq(c, ftm[t])

(* C1: a direct call of spunge_augment, or of munge_augment on at least 2  *)
(* rows, with N >= 1 and a perturbation setting of at most 1, returns a    *)
(* batch of exactly N rows over the columns of X, whatever the draws.      *)
C1_BatchHasNRows ==
    (/\ pc = "done"
     /\ op \in Samplers
     /\ kwargs.num_augmented_samples >= 1
     /\ ~(Perturbation[1] > Perturbation[2])
     /\ (op = "munge_augment" => Len(X_in.rows) >= 2))
    => /\ err = NoError
       /\ IsFrame(ret)
       /\ Len(ret.rows) = kwargs.num_augmented_samples
       /\ ret.columns = X_in.columns
       /\ \A p \in 1..Len(ret.rows) : DOMAIN ret.rows[p] = Range(X_in.columns)

C1_Witness ==
    /\ pc = "done"
    /\ op = "munge_augment"
    /\ kwargs.num_augmented_samples = 2
    /\ Len(X_in.rows) = 2
    /\ IsFrame(ret)
    /\ Len(ret.rows) = 2

(* C3: postprocess_augmented(X_aug, X) returns the rows of X_aug in their  *)
(* order and nothing else, under the index 0 .. len(X_aug) - 1, and leaves *)
(* X as it was.                                                            *)
C3_PostprocessReturnsBatch ==
    (pc = "done" /\ op = "postprocess_augmented")
    => /\ IsFrame(ret)
       /\ ret.rows = X_aug.rows
       /\ Len(ret.rows) = Len(X_aug.rows)
       /\ ret.index = [p \in 1..Len(X_aug.rows) |-> p - 1]
       /\ ret.columns = X_in.columns
       /\ X = X_in

C3_Witness ==
    /\ pc = "done"
    /\ op = "postprocess_augmented"
    /\ Len(X_aug.rows) = 2
    /\ X_aug.index = <<1, 2>>
    /\ Len(X.rows) = 2
    /\ X_aug.rows[1] # X_aug.rows[2]
    /\ IsFrame(ret)

(* C4: a sampler called with a perturbation setting above 1 never reaches  *)
(* its row loop: it ends in a ValueError with no row generated and nothing *)
(* returned.                                                               *)
C4_RejectedBeforeAnyRow ==
    (op \in Samplers /\ Perturbation[1] > Perturbation[2])
    => \/ pc \in Samplers
       \/ /\ pc = "done"
          /\ err.type = "ValueError"
          /\ ret = None
          /\ X_aug = EmptyFrame
          /\ i = 0

C4_Witness ==
    /\ pc = "done"
    /\ op = "munge_augment"
    /\ kwargs.perturb_prob = <<3, 2>>
    /\ kwargs.num_augmented_samples = 2
    /\ Len(X_in.rows) = 2
    /\ err = ValueError("munge_augment")

(* C5: with num_augmented_samples = 0 and an otherwise valid request, a    *)
(* sampler returns an empty batch without error.                           *)
C5_ZeroSamplesEmptyBatch ==
    (/\ pc = "done"
     /\ op \in Samplers
     /\ kwargs.num_augmented_samples = 0
     /\ ~(Perturbation[1] > Perturbation[2])
     /\ (op = "munge_augment" => Len(X_in.rows) >= 2))
    => /\ err = NoError
       /\ IsFrame(ret)
       /\ Len(ret.rows) = 0

(* C6: munge_augment on a dataset of exactly 1 row fails with an error the *)
(* sampler raises itself, without attempting the neighbor search, and      *)
(* returns nothing.                                                        *)
C6_OneRowInsufficientData ==
    (pc = "done" /\ op = "munge_augment" /\ Len(X_in.rows) = 1)
    => /\ err # NoError
       /\ err.raised_by = "munge_augment"
       /\ ~nn_attempted
       /\ ret = None

(* C7: in a batch returned by spunge_augment, the value of every column    *)
(* that is not listed under 'float', 'int' or 'datetime' occurs in the     *)
(* same column of X.                                                       *)
C7_CategoricalValuesObserved ==
    (pc = "done" /\ op = "spunge_augment" /\ err = NoError)
    => \A p \in 1..Len(ret.rows) :
       \A c \in Range(X_in.columns) :
          ~ListedContinuous(feature_types_metadata, c)
          => \E q \in 1..Len(X_in.rows) : ret.rows[p][c] = X_in.rows[q][c]

C7_Witness ==
    /\ pc = "done"
    /\ op = "spunge_augment"
    /\ err = NoError
    /\ feature_types_metadata = ("float" :> <<"x">>)
    /\ \E p \in 1..Len(ret.rows) :
          /\ ret.rows[p]["c"] # X_in.rows[((p - 1) % Len(X_in.rows)) + 1]["c"]
          /\ ret.rows[p]["x"] \notin {X_in.rows[q]["x"] : q \in 1..Len(X_in.rows)}

(* Python's round(num / den) for num >= 0: to nearest, a half to even *)
Round(num, den) ==
    LET q == num \div den
        r == num % den
    IN IF 2 * r < den THEN q
       ELSE IF 2 * r > den THEN q + 1
       ELSE IF q % 2 = 0 THEN q ELSE q + 1

(* the columns drawn for the row built last are in 1 .. num_feature_perturb *)
(* in number and pairwise distinct                                          *)
DrawnColumnsDistinct ==
    i >= 1 => /\ Len(cols_toperturb) \in 1..num_feature_perturb
              /\ \A m, n \in DOMAIN cols_toperturb :
                    m # n => cols_toperturb[m] # cols_toperturb[n]
              /\ Range(cols_toperturb) \subseteq Range(X.columns)

(* C9 as stated: in spunge_augment, num_feature_perturb is                  *)
(* max(1, round(frac_perturb x column_count)), and each row resamples k     *)
(* distinct columns, k in 1 .. num_feature_perturb.                         *)
C9_PerturbBoundRounded ==
    (op = "spunge_augment" /\ pc \in {"spunge_loop", "spunge_noise"})
    => /\ num_feature_perturb =
            Max(1, Round(kwargs.frac_perturb[1] * Len(X.columns),
                         kwargs.frac_perturb[2]))
       /\ DrawnColumnsDistinct

(* C9 amended: num_feature_perturb is max(1, floor(frac_perturb x           *)
(* column_count)): the product is truncated, not rounded; each row          *)
(* resamples k distinct columns, k in 1 .. num_feature_perturb.             *)
C9_PerturbBoundTruncated ==
    (op = "spunge_augment" /\ pc \in {"spunge_loop", "spunge_noise"})
    => LET n == kwargs.frac_perturb[1] * Len(X.columns)
           d == kwargs.frac_perturb[2]
       IN /\ n < d => num_feature_perturb = 1
          /\ n >= d => /\ num_feature_perturb * d <= n
                       /\ n < (num_feature_perturb + 1) * d
          /\ DrawnColumnsDistinct

C9_Witness ==
    /\ op = "spunge_augment"
    /\ pc = "spunge_loop"
    /\ i = 2
    /\ kwargs.frac_perturb = <<3, 4>>
    /\ Len(X.columns) = 2
    /\ num_feature_perturb = 1
    /\ Len(cols_toperturb) = 1

(* C10: in munge_augment on at least 2 rows, every generated row p has, in *)
(* each column not listed as continuous, the value of its base row         *)
(* X[(p-1) mod |X|] or of that row's recorded neighbor; the columns not    *)
(* drawn keep the base row's value; and no row is its own neighbor.        *)
C10_NeighborIsAnotherRow ==
    (op = "munge_augment" /\ pc = "munge_loop")
    => /\ \A q \in 1..Len(X.rows) : neigh_ind[q] # q - 1
       /\ \A p \in 1..i :
             LET base == X.rows[((p - 1) % Len(X.rows)) + 1]
                 nbr == X.rows[neigh_ind[((p - 1) % Len(X.rows)) + 1] + 1]
             IN \A c \in Range(X.columns) :
                   /\ ~ListedContinuous(feature_types_metadata, c)
                      => X_aug.rows[p][c] \in {base[c], nbr[c]}
                   /\ (p = i /\ ~InSeq(c, cols_toperturb))
                      => X_aug.rows[p][c] = base[c]

(* =================== properties of the dispatcher ====================== *)
(* C2: an augment_data call without augmentation_data, on a mapping the    *)
(* caller built with size_factor and without num_augmented_samples,        *)
(* returns min(max_size, size_factor x |X|) rows for the X of that call,   *)
(* whatever calls came before it.                                          *)
C2_RowCountFromThisCall ==
    (/\ pc = "done"
     /\ op = "augment_data"
     /\ augmentation_data = None
     /\ err = NoError
     /\ "size_factor" \in DOMAIN args_built)
    => LET sf == args_built["size_factor"]
           scaled == (sf[1] * Len(X_in.rows)) \div sf[2]
           expected == IF "max_size" \in DOMAIN args_built
                          /\ args_built["max_size"].val < scaled
                       THEN args_built["max_size"].val
                       ELSE scaled
       IN Len(ret.rows) = expected

(* ================= properties of the label transformer ================= *)
RECURSIVE RowSum(_, _)
RowSum(row, n) == IF n = 0 THEN 0 ELSE row[n - 1] + RowSum(row, n - 1)

InRange(y, num_classes) == \A r \in DOMAIN y : y[r] \in 0..(num_classes - 1)

IsOneHotOf(out, y, num_classes) ==
    /\ Len(out) = Len(y)
    /\ \A r \in 1..Len(y) :
          /\ DOMAIN out[r] = 0..(num_classes - 1)
          /\ out[r][y[r]] = 1
          /\ \A c \in 0..(num_classes - 1) : c # y[r] => out[r][c] = 0
          /\ Cardinality({c \in 0..(num_classes - 1) : out[r][c] = 1}) = 1
          /\ RowSum(out[r], num_classes) = 1

(* C8: for multiclass with every label in 0 .. num_classes - 1, each label *)
(* c of y_train and y_test becomes a row of length num_classes with 1 at   *)
(* position c and 0 elsewhere, rows in the order of the input.             *)
C8_MulticlassOneHot ==
    (/\ pc = "done"
     /\ op = "format_distillation_labels"
     /\ y_in.problem_type = "multiclass"
     /\ InRange(y_in.y_train, y_in.num_classes)
     /\ InRange(y_in.y_test, y_in.num_classes))
    => /\ err = NoError
       /\ IsOneHotOf(y_ret[1], y_in.y_train, y_in.num_classes)
       /\ IsOneHotOf(y_ret[2], y_in.y_test, y_in.num_classes)

C8_Witness ==
    /\ pc = "done"
    /\ op = "format_distillation_labels"
    /\ y_in.problem_type = "multiclass"
    /\ y_in.num_classes = 3
    /\ y_in.y_train = <<2, 0>>
    /\ y_in.y_test = <<1>>
    /\ err = NoError
    /\ y_ret[1][1][2] = 1
====
